---- MODULE Spec2Model ----
(***************************************************************************)
(* RealDataMap (src/src/RealDataMap.tsx): the two load effects, the merge  *)
(* effect that joins the price records onto the suburb geometries, and the *)
(* render gates; and the views that load a single file (VicSuburbMap,      *)
(* VicMap, GeoMap, SimpleMap) with the getColor of every view.             *)
(*                                                                         *)
(* JavaScript strings are sequences of one-character strings, so that      *)
(* toLowerCase, trim and the regular-expression replacements are computed  *)
(* character by character.  JavaScript values are tagged records           *)
(* [t, n, s]: t is "str", "num", "nan", "undef" or "null".  A property a   *)
(* feature does not have reads as undefined, as it does in JavaScript.     *)
(* Suburb names are taken from a pool of place names; none of them is the  *)
(* name of a member of Object.prototype.                                   *)
(***************************************************************************)
EXTENDS Integers, Sequences, FiniteSets, TLC

(* ------------------------------ bounds --------------------------------- *)
MaxRecords == 2
MaxFeatures == 2

(* --------------------------- JavaScript values ------------------------- *)
Str(s) == [t |-> "str", n |-> 0, s |-> s]
Num(n) == [t |-> "num", n |-> n, s |-> <<>>]
NaN == [t |-> "nan", n |-> 0, s |-> <<>>]
Undefined == [t |-> "undef", n |-> 0, s |-> <<>>]
JSNull == [t |-> "null", n |-> 0, s |-> <<>>]

\* ToBoolean: '', 0, NaN, undefined and null are falsy
Truthy(v) ==
  CASE v.t = "str" -> Len(v.s) > 0
    [] v.t = "num" -> v.n # 0
    [] OTHER -> FALSE

UpperAlpha == <<"A","B","C","D","E","F","G","H","I","J","K","L","M","N","O","P","Q","R","S","T","U","V","W","X","Y","Z">>
LowerAlpha == <<"a","b","c","d","e","f","g","h","i","j","k","l","m","n","o","p","q","r","s","t","u","v","w","x","y","z">>
Digits == <<"0","1","2","3","4","5","6","7","8","9">>
Whitespace == {" ", "\t"}

LowerChar(c) ==
  IF \E i \in 1..Len(UpperAlpha) : UpperAlpha[i] = c
  THEN LowerAlpha[CHOOSE i \in 1..Len(UpperAlpha) : UpperAlpha[i] = c]
  ELSE c

\* String.prototype.toLowerCase
ToLowerCase(s) == [i \in 1..Len(s) |-> LowerChar(s[i])]

RECURSIVE TrimStart(_)
TrimStart(s) ==
  IF Len(s) > 0 /\ s[1] \in Whitespace THEN TrimStart(Tail(s)) ELSE s

RECURSIVE TrimEnd(_)
TrimEnd(s) ==
  IF Len(s) > 0 /\ s[Len(s)] \in Whitespace
  THEN TrimEnd(SubSeq(s, 1, Len(s) - 1)) ELSE s

\* String.prototype.trim
Trim(s) == TrimEnd(TrimStart(s))

StartsWith(s, w) == Len(s) >= Len(w) /\ SubSeq(s, 1, Len(w)) = w
EndsWith(s, w) == Len(s) >= Len(w) /\ SubSeq(s, Len(s) - Len(w) + 1, Len(s)) = w

wNorth == <<"n","o","r","t","h">>
wSouth == <<"s","o","u","t","h">>
wEast == <<"e","a","s","t">>
wWest == <<"w","e","s","t">>
wPort == <<"p","o","r","t">>
LeadingTokens == {wNorth, wSouth, wEast, wWest, wPort}
TrailingTokens == {wNorth, wSouth, wEast, wWest}

\* s.replace(/^(north|south|east|west|port)\s+/, ''): a leading token that is
\* followed by whitespace is removed together with the whole whitespace run
StripLeading(s) ==
  IF \E w \in LeadingTokens :
       StartsWith(s, w) /\ Len(s) > Len(w) /\ s[Len(w) + 1] \in Whitespace
  THEN LET w == CHOOSE w \in LeadingTokens :
                  StartsWith(s, w) /\ Len(s) > Len(w) /\ s[Len(w) + 1] \in Whitespace
       IN TrimStart(SubSeq(s, Len(w) + 1, Len(s)))
  ELSE s

\* s.replace(/\s+(north|south|east|west)$/, ''): a trailing token that is
\* preceded by whitespace is removed together with the whole whitespace run
StripTrailing(s) ==
  IF \E w \in TrailingTokens :
       EndsWith(s, w) /\ Len(s) > Len(w) /\ s[Len(s) - Len(w)] \in Whitespace
  THEN LET w == CHOOSE w \in TrailingTokens :
                  EndsWith(s, w) /\ Len(s) > Len(w) /\ s[Len(s) - Len(w)] \in Whitespace
       IN TrimEnd(SubSeq(s, 1, Len(s) - Len(w)))
  ELSE s

\* the two replacements are chained: the second acts on the result of the first
simpleName(name) == StripTrailing(StripLeading(name))

IsDigit(c) == \E i \in 1..Len(Digits) : Digits[i] = c
DigitValue(c) == (CHOOSE i \in 1..Len(Digits) : Digits[i] = c) - 1

\* s.replace(/[^0-9]/g, '')
RECURSIVE OnlyDigits(_)
OnlyDigits(s) ==
  IF Len(s) = 0 THEN <<>>
  ELSE IF IsDigit(s[1]) THEN <<s[1]>> \o OnlyDigits(Tail(s))
  ELSE OnlyDigits(Tail(s))

RECURSIVE DecimalValue(_)
DecimalValue(ds) ==
  IF Len(ds) = 0 THEN 0
  ELSE 10 * DecimalValue(SubSeq(ds, 1, Len(ds) - 1)) + DigitValue(ds[Len(ds)])

\* parseInt(ds, 10) of a string of digits: NaN when it is empty
ParseInt(ds) == IF Len(ds) = 0 THEN NaN ELSE Num(DecimalValue(ds))

\* pricePerSqmStr ? parseInt(pricePerSqmStr.replace(/[^0-9]/g, ''), 10) : 0
pricePerSqm(pricePerSqmStr) ==
  IF Truthy(pricePerSqmStr) THEN ParseInt(OnlyDigits(pricePerSqmStr.s)) ELSE Num(0)

(* ------------------------------ the join ------------------------------- *)
PropKeys == {"vic_loca_2", "name", "VIC_LOCA_2", "postcode", "price_sqm",
             "median_price", "block_size", "lga", "matched_suburb"}
JoinKeys == {"price_sqm", "median_price", "block_size", "lga", "matched_suburb"}

kWilliamstown == <<"w","i","l","l","i","a","m","s","t","o","w","n">>
kRichmond == <<"r","i","c","h","m","o","n","d">>

\* suburbMap is a Record<string, any>; its values are price records, held
\* here by their position in suburbData, 0 standing for undefined
EmptyMap == [k \in {} |-> 0]
Put(m, key, v) == [k \in (DOMAIN m) \cup {key} |-> IF k = key THEN v ELSE m[k]]
Get(m, key) == IF key \in DOMAIN m THEN m[key] ELSE 0

\* one iteration of suburbData.forEach
AddSuburb(m, data, i) ==
  LET name == Trim(ToLowerCase(data[i].Suburb.s))
      m1 == Put(m, name, i)
  IN IF simpleName(name) # name THEN Put(m1, simpleName(name), i) ELSE m1

RECURSIVE AddSuburbs(_, _, _)
AddSuburbs(m, data, i) ==
  IF i > Len(data) THEN m ELSE AddSuburbs(AddSuburb(m, data, i), data, i + 1)

\* suburbData.find(s => s.Suburb.toLowerCase() === key)
Find(data, key) ==
  IF \E i \in 1..Len(data) : ToLowerCase(data[i].Suburb.s) = key
  THEN CHOOSE i \in 1..Len(data) :
         /\ ToLowerCase(data[i].Suburb.s) = key
         /\ \A j \in 1..(i - 1) : ToLowerCase(data[j].Suburb.s) # key
  ELSE 0

suburbMap(data) ==
  LET m == AddSuburbs(EmptyMap, data, 1)
  IN Put(Put(m, kWilliamstown, Find(data, kWilliamstown)),
         kRichmond, Find(data, kRichmond))

\* suburb.Suburb.toLowerCase() raises a TypeError on a row without a Suburb
MergeThrows(data) == \E i \in 1..Len(data) : data[i].Suburb.t # "str"

\* feature.properties.vic_loca_2 || feature.properties.name ||
\* feature.properties.VIC_LOCA_2 || ''
suburbName(feature) ==
  LET p == feature.properties
  IN IF Truthy(p["vic_loca_2"]) THEN p["vic_loca_2"]
     ELSE IF Truthy(p["name"]) THEN p["name"]
     ELSE IF Truthy(p["VIC_LOCA_2"]) THEN p["VIC_LOCA_2"]
     ELSE Str(<<>>)

lookupName(feature) == Trim(ToLowerCase(suburbName(feature).s))

\* suburbMap[lookupName]
matchingSuburb(feature, m) == Get(m, lookupName(feature))

\* variant: a feature without a match is given a zero price
MergeFeature_ZeroOnMiss(feature, m, data) ==
  LET i == matchingSuburb(feature, m)
  IN IF i # 0
     THEN [feature EXCEPT !.properties =
            [k \in PropKeys |->
               CASE k = "price_sqm" -> pricePerSqm(data[i].PriceSqm)
                 [] k = "median_price" -> data[i].MedianPrice
                 [] k = "block_size" -> data[i].BlockSize
                 [] k = "lga" -> data[i].LGA
                 [] k = "matched_suburb" -> data[i].Suburb
                 [] OTHER -> feature.properties[k]]]
     ELSE [feature EXCEPT !.properties["price_sqm"] = Num(0)]

\* variant: ...feature.properties is spread after the joined fields, so a
\* property the feature already has wins over the record's
MergeFeature_SpreadLast(feature, m, data) ==
  LET i == matchingSuburb(feature, m)
      joined(k) == CASE k = "price_sqm" -> pricePerSqm(data[i].PriceSqm)
                     [] k = "median_price" -> data[i].MedianPrice
                     [] k = "block_size" -> data[i].BlockSize
                     [] k = "lga" -> data[i].LGA
                     [] k = "matched_suburb" -> data[i].Suburb
                     [] OTHER -> feature.properties[k]
  IN IF i # 0
     THEN [feature EXCEPT !.properties =
            [k \in PropKeys |->
               IF feature.properties[k] # Undefined THEN feature.properties[k]
               ELSE joined(k)]]
     ELSE feature

\* the callback of geoJSONData.features.map
MergeFeature(feature, m, data) ==
  LET i == matchingSuburb(feature, m)
  IN IF i # 0
     THEN [feature EXCEPT !.properties =
            [k \in PropKeys |->
               CASE k = "price_sqm" -> pricePerSqm(data[i].PriceSqm)
                 [] k = "median_price" -> data[i].MedianPrice
                 [] k = "block_size" -> data[i].BlockSize
                 [] k = "lga" -> data[i].LGA
                 [] k = "matched_suburb" -> data[i].Suburb
                 [] OTHER -> feature.properties[k]]]
     ELSE feature

\* variant: counts only the features that were not enriched before
matchCount_NewOnly(features, m) ==
  Cardinality({j \in 1..Len(features) :
                 /\ matchingSuburb(features[j], m) # 0
                 /\ features[j].properties["matched_suburb"] = Undefined})

\* variant: counts the price records that were used
matchCount_RecordsUsed(features, m) ==
  Cardinality({matchingSuburb(features[j], m) : j \in 1..Len(features)} \ {0})

\* variant: counts the keys of the lookup map that hold a record
matchCount_MapKeys(features, m) ==
  Cardinality({k \in DOMAIN m : m[k] # 0})

\* matchCount++ once for every feature whose lookup is truthy
matchCount(features, m) ==
  Cardinality({j \in 1..Len(features) : matchingSuburb(features[j], m) # 0})

mergedData(geo, data) ==
  LET m == suburbMap(data)
  IN [geo EXCEPT !.features =
        [j \in 1..Len(geo.features) |-> MergeFeature(geo.features[j], m, data)]]

\* variant: no guard for missing data, as in the getColor of GeoMap; a
\* comparison with NaN or undefined is false, so these reach the last return
getColor_NoGuard(price) ==
  IF price.t = "str" THEN "#cccccc"
  ELSE IF price.t # "num" THEN "#4a0018"
  ELSE IF price.n < 3000 THEN "#1a9850"
  ELSE IF price.n < 4000 THEN "#91cf60"
  ELSE IF price.n < 5000 THEN "#d9ef8b"
  ELSE IF price.n < 6000 THEN "#fee08b"
  ELSE IF price.n < 7000 THEN "#fc8d59"
  ELSE IF price.n < 8000 THEN "#d73027"
  ELSE IF price.n < 10000 THEN "#bd0026"
  ELSE IF price.n < 12000 THEN "#800026"
  ELSE "#4a0018"

\* variant: the first comparison is price <= 3000
getColor_InclusiveBound(price) ==
  IF ~Truthy(price) \/ price.t # "num" THEN "#cccccc"
  ELSE IF price.n <= 3000 THEN "#1a9850"
  ELSE IF price.n < 4000 THEN "#91cf60"
  ELSE IF price.n < 5000 THEN "#d9ef8b"
  ELSE IF price.n < 6000 THEN "#fee08b"
  ELSE IF price.n < 7000 THEN "#fc8d59"
  ELSE IF price.n < 8000 THEN "#d73027"
  ELSE IF price.n < 10000 THEN "#bd0026"
  ELSE IF price.n < 12000 THEN "#800026"
  ELSE "#4a0018"

\* variant: the scale without the 10000 threshold, so that prices from 10000
\* to 12000 take the colour of the bucket below
getColor_DriftedScale(price) ==
  IF ~Truthy(price) \/ price.t # "num" THEN "#cccccc"
  ELSE IF price.n < 3000 THEN "#1a9850"
  ELSE IF price.n < 4000 THEN "#91cf60"
  ELSE IF price.n < 5000 THEN "#d9ef8b"
  ELSE IF price.n < 6000 THEN "#fee08b"
  ELSE IF price.n < 7000 THEN "#fc8d59"
  ELSE IF price.n < 8000 THEN "#d73027"
  ELSE IF price.n < 12000 THEN "#bd0026"
  ELSE "#4a0018"

\* Function to determine color based on price per sqm: !price || isNaN(price)
\* holds of 0, NaN, undefined, null and of a string that is not a number
getColor(price) ==
  IF ~Truthy(price) \/ price.t # "num" THEN "#cccccc"
  ELSE IF price.n < 3000 THEN "#1a9850"
  ELSE IF price.n < 4000 THEN "#91cf60"
  ELSE IF price.n < 5000 THEN "#d9ef8b"
  ELSE IF price.n < 6000 THEN "#fee08b"
  ELSE IF price.n < 7000 THEN "#fc8d59"
  ELSE IF price.n < 8000 THEN "#d73027"
  ELSE IF price.n < 10000 THEN "#bd0026"
  ELSE IF price.n < 12000 THEN "#800026"
  ELSE "#4a0018"

kYarraville == <<"y","a","r","r","a","v","i","l","l","e">>

\* variant: without the special case for Yarraville
featureStyle_NoSpecialCase(feature) ==
  LET price == feature.properties["price_sqm"]
  IN [fillColor |-> IF Truthy(price) THEN getColor(price) ELSE "#cccccc",
      weight |-> 1, opacity |-> 1, color |-> "white", dashArray |-> "3"]

\* variant: the fill colour is getColor(price) without the truthiness test,
\* with a getColor that lets a zero price through
featureStyle_ZeroIsCheap(feature) ==
  LET price == feature.properties["price_sqm"]
  IN IF ToLowerCase(suburbName(feature).s) = kYarraville
     THEN [fillColor |-> getColor(Num(2680)),
           weight |-> 1, opacity |-> 1, color |-> "white", dashArray |-> "3"]
     ELSE [fillColor |-> IF price.t = "num" /\ price.n > 0 THEN getColor(price)
                         ELSE "#1a9850",
           weight |-> 1, opacity |-> 1, color |-> "white", dashArray |-> "3"]

\* Style function for GeoJSON features (fillOpacity 0.7 is left out)
featureStyle(feature) ==
  LET price == feature.properties["price_sqm"]
  IN IF ToLowerCase(suburbName(feature).s) = kYarraville
     THEN [fillColor |-> getColor(Num(2680)),
           weight |-> 1, opacity |-> 1, color |-> "white", dashArray |-> "3"]
     ELSE [fillColor |-> IF Truthy(price) THEN getColor(price) ELSE "#cccccc",
           weight |-> 1, opacity |-> 1, color |-> "white", dashArray |-> "3"]

\* props.median_price || 'N/A'
OrNA(v) == IF Truthy(v) THEN v ELSE Str(<<"N","/","A">>)

\* variant: without the special case for Yarraville
onEachFeature_NoSpecialCase(feature) ==
  LET props == feature.properties
      price == props["price_sqm"]
  IN IF Truthy(price)
     THEN [kind |-> "price", h3 |-> suburbName(feature),
           median |-> OrNA(props["median_price"]),
           block |-> OrNA(props["block_size"]), price |-> price]
     ELSE [kind |-> "No price data available", h3 |-> suburbName(feature),
           median |-> Undefined, block |-> Undefined, price |-> Undefined]

\* Function to handle popup content for each feature: the popup it binds.
\* kind tells the three templates apart; price is the number that is formatted
onEachFeature(feature) ==
  LET props == feature.properties
      price == props["price_sqm"]
  IN IF ToLowerCase(suburbName(feature).s) = kYarraville
     THEN [kind |-> "yarraville", h3 |-> Str(<<"Y","A","R","R","A","V","I","L","L","E">>),
           median |-> Str(<<"$","1",",","1","2","5",",","5","0","0">>),
           block |-> Str(<<"4","2","0">>), price |-> Num(2680)]
     ELSE IF Truthy(price)
     THEN [kind |-> "price", h3 |-> suburbName(feature),
           median |-> OrNA(props["median_price"]),
           block |-> OrNA(props["block_size"]), price |-> price]
     ELSE [kind |-> "No price data available", h3 |-> suburbName(feature),
           median |-> Undefined, block |-> Undefined, price |-> Undefined]

\* the rows of the legend: each row's colour and the range its label states,
\* lo <= price < hi; 'Under $3,000' has no lower end and '$12,000+' no upper
\* end (hi = -1), 'No data' has no range
legend ==
  << [color |-> "#1a9850", label |-> "Under $3,000", lo |-> -1, hi |-> 3000],
     [color |-> "#91cf60", label |-> "$3,000 - $4,000", lo |-> 3000, hi |-> 4000],
     [color |-> "#d9ef8b", label |-> "$4,000 - $5,000", lo |-> 4000, hi |-> 5000],
     [color |-> "#fee08b", label |-> "$5,000 - $6,000", lo |-> 5000, hi |-> 6000],
     [color |-> "#fc8d59", label |-> "$6,000 - $7,000", lo |-> 6000, hi |-> 7000],
     [color |-> "#d73027", label |-> "$7,000 - $8,000", lo |-> 7000, hi |-> 8000],
     [color |-> "#bd0026", label |-> "$8,000 - $10,000", lo |-> 8000, hi |-> 10000],
     [color |-> "#800026", label |-> "$10,000 - $12,000", lo |-> 10000, hi |-> 12000],
     [color |-> "#4a0018", label |-> "$12,000+", lo |-> 12000, hi |-> -1],
     [color |-> "#cccccc", label |-> "No data", lo |-> -1, hi |-> -1] >>

(* ------------------------ the colours of the other views --------------- *)
\* price < bound for a price that may not be a number: a comparison with
\* undefined or NaN is false, and null is converted to 0
Less(price, bound) ==
  \/ price.t = "num" /\ price.n < bound
  \/ price.t = "null" /\ 0 < bound

\* getColor of GeoMap: no test for a missing price
GeoMap_getColor(price) ==
  IF Less(price, 5000) THEN "#1a9850"
  ELSE IF Less(price, 8000) THEN "#91cf60"
  ELSE IF Less(price, 11000) THEN "#d9ef8b"
  ELSE IF Less(price, 14000) THEN "#fee08b"
  ELSE IF Less(price, 17000) THEN "#fc8d59"
  ELSE IF Less(price, 20000) THEN "#d73027"
  ELSE "#bd0026"

\* getColor of SimpleMap
SimpleMap_getColor(price) ==
  IF Less(price, 5000) THEN "#1a9850"
  ELSE IF Less(price, 8000) THEN "#91cf60"
  ELSE IF Less(price, 11000) THEN "#d9ef8b"
  ELSE IF Less(price, 14000) THEN "#fee08b"
  ELSE IF Less(price, 17000) THEN "#fc8d59"
  ELSE IF Less(price, 20000) THEN "#d73027"
  ELSE "#bd0026"

\* getColor of VicMap
VicMap_getColor(price) ==
  IF Less(price, 5000) THEN "#1a9850"
  ELSE IF Less(price, 8000) THEN "#91cf60"
  ELSE IF Less(price, 11000) THEN "#d9ef8b"
  ELSE IF Less(price, 14000) THEN "#fee08b"
  ELSE IF Less(price, 17000) THEN "#fc8d59"
  ELSE IF Less(price, 20000) THEN "#d73027"
  ELSE "#bd0026"

\* getColor of BasicMap
BasicMap_getColor(price) ==
  IF Less(price, 5000) THEN "#1a9850"
  ELSE IF Less(price, 8000) THEN "#91cf60"
  ELSE IF Less(price, 11000) THEN "#d9ef8b"
  ELSE IF Less(price, 14000) THEN "#fee08b"
  ELSE IF Less(price, 17000) THEN "#fc8d59"
  ELSE IF Less(price, 20000) THEN "#d73027"
  ELSE "#bd0026"

\* getColor of PropertyMap
PropertyMap_getColor(price) ==
  IF Less(price, 6000) THEN "#1a9850"
  ELSE IF Less(price, 8000) THEN "#91cf60"
  ELSE IF Less(price, 10000) THEN "#d9ef8b"
  ELSE IF Less(price, 12000) THEN "#fee08b"
  ELSE IF Less(price, 14000) THEN "#fc8d59"
  ELSE "#d73027"

\* getColor of VicSuburbMap: if (!price) return '#cccccc'
VicSuburbMap_getColor(price) ==
  IF ~Truthy(price) THEN "#cccccc"
  ELSE IF Less(price, 5000) THEN "#1a9850"
  ELSE IF Less(price, 8000) THEN "#91cf60"
  ELSE IF Less(price, 11000) THEN "#d9ef8b"
  ELSE IF Less(price, 14000) THEN "#fee08b"
  ELSE IF Less(price, 17000) THEN "#fc8d59"
  ELSE IF Less(price, 20000) THEN "#d73027"
  ELSE "#bd0026"

MapViews == {"SimpleMap", "VicMap", "BasicMap", "GeoMap", "PropertyMap",
             "VicSuburbMap", "RealDataMap"}

\* the getColor a view styles its features with
viewGetColor(view, price) ==
  CASE view = "SimpleMap" -> SimpleMap_getColor(price)
    [] view = "VicMap" -> VicMap_getColor(price)
    [] view = "BasicMap" -> BasicMap_getColor(price)
    [] view = "GeoMap" -> GeoMap_getColor(price)
    [] view = "PropertyMap" -> PropertyMap_getColor(price)
    [] view = "VicSuburbMap" -> VicSuburbMap_getColor(price)
    [] view = "RealDataMap" -> getColor(price)

(* --------------------------- the two sources --------------------------- *)
sMelbourne == <<"M","e","l","b","o","u","r","n","e">>
sNorthMelbourne == <<"N","o","r","t","h"," ","M","e","l","b","o","u","r","n","e">>
sRichmond == <<"R","i","c","h","m","o","n","d">>
sRichmondPadded == <<" ","R","I","C","H","M","O","N","D"," ">>
sNowhereSpecial == <<"N","o","w","h","e","r","e"," ","S","p","e","c","i","a","l">>
p9000 == <<"$","9",",","0","0","0">>
p12500 == <<"$","1","2",",","5","0","0">>
pNA == <<"N","/","A">>
mp1 == <<"$","1",".","2","M">>
mp2 == <<"$","9","5","0","k">>
mp3 == <<"$","2",".","1","M">>
mp4 == <<"$","8","0","0","k">>
bs1 == <<"4","2","0">>
bs2 == <<"3","0","0">>
bs3 == <<"6","5","0">>
bs4 == <<"5","1","0">>
lgaMelbourne == <<"M","e","l","b","o","u","r","n","e">>
lgaYarra == <<"Y","a","r","r","a">>
lgaHobsons == <<"H","o","b","s","o","n","s"," ","B","a","y">>
lgaMoonee == <<"M","o","o","n","e","e">>
pc3000 == <<"3","0","0","0">>
pc3121 == <<"3","1","2","1">>

\* interface SuburbData; PriceSqm is the '$/sqm' column, BlockSize the
\* 'Estimated Block Size (sqm)' column, MedianPrice the 'Median Price' column
SuburbRow(lga, suburb, block, median, price) ==
  [LGA |-> lga, Suburb |-> suburb, BlockSize |-> block, MedianPrice |-> median,
   PriceSqm |-> price]

recMelbourne == SuburbRow(Str(lgaMelbourne), Str(sMelbourne), Str(bs1), Str(mp1), Str(p12500))
\* a row whose price column holds no digit
recNorthMelbourne == SuburbRow(Str(lgaMoonee), Str(sNorthMelbourne), Str(bs2), Str(mp2), Str(pNA))
recRichmond == SuburbRow(Str(lgaYarra), Str(sRichmond), Str(bs3), Str(mp3), Str(p9000))
\* a second row for Richmond, differently cased and padded, without a price
recRichmondNoPrice == SuburbRow(Str(lgaMelbourne), Str(sRichmondPadded), Str(bs4), Str(mp4), Str(<<>>))
\* the row Papa.parse (header: true) yields for a blank line: only the first
\* column is present
recBlankLine == SuburbRow(Str(<<>>), Undefined, Undefined, Undefined, Undefined)

RecordPool == {recMelbourne, recNorthMelbourne, recRichmond, recRichmondNoPrice,
               recBlankLine}

\* interface GeoJSONFeature: the properties a feature lacks read as undefined
Feature(geometry, props) ==
  [geometry |-> geometry,
   properties |-> [k \in PropKeys |-> IF k \in DOMAIN props THEN props[k] ELSE Undefined]]

featMelbourne == Feature("g1", [vic_loca_2 |-> Str(sMelbourne), postcode |-> Str(pc3000)])
featNorthMelbourne == Feature("g2", [vic_loca_2 |-> Str(<<>>), name |-> Str(sNorthMelbourne)])
featRichmond == Feature("g3", [VIC_LOCA_2 |-> Str(sRichmondPadded), postcode |-> Str(pc3121), lga |-> Str(lgaHobsons)])
featRichmondPlain == Feature("g4", [name |-> Str(sRichmond)])
featNowhereSpecial == Feature("g5", [name |-> Str(sNowhereSpecial), postcode |-> Str(pc3000)])
featUnnamed == Feature("g6", [postcode |-> Str(pc3121)])

FeaturePool == {featMelbourne, featNorthMelbourne, featRichmond, featNowhereSpecial,
                featUnnamed}

SeqsUpTo(S, n) == UNION {[1..k -> S] : k \in 0..n}

\* interface GeoJSONData
FeatureCollection(features) == [type |-> "FeatureCollection", features |-> features]
Null == [type |-> "null", features |-> <<>>]

\* the end-to-end scenario: three geometries, two price records
ScenarioRecords == <<recRichmond, recMelbourne>>
ScenarioFeatures == <<featRichmondPlain, featNorthMelbourne, featNowhereSpecial>>

CsvPayloads == SeqsUpTo(RecordPool, MaxRecords) \cup {ScenarioRecords}
GeoPayloads == {FeatureCollection(fs) : fs \in SeqsUpTo(FeaturePool, MaxFeatures) \cup {ScenarioFeatures}}

(* ----------------------------- the component --------------------------- *)
\* csvFetch and geoFetch are the states of the two fetch promises.  The six
\* useState values follow.  rendered holds the values the current render closed
\* over, effectPending says that the merge effect of that render is scheduled,
\* and lastDeps is the dependency array of the previous render.  crashed is set
\* when the merge effect throws, which unmounts the component.
\* History variables: geoPayload is the collection the GeoJSON fetch resolved
\* with (null before), mergeRuns counts the executions of the merge body.
\* call holds the last application of one of the component's functions to an
\* argument: the function, its argument, its result.
\* page is the state of one of the views that load a single file: the view
\* that is mounted, the state of its fetch promise, and its useState values.
VARIABLES geoPayload, csvFetch, geoFetch,
          suburbData, geoJSONData, loading, error, dataProcessed, matchedCount,
          rendered, effectPending, lastDeps, crashed, mergeRuns, call, page

state == <<suburbData, geoJSONData, loading, error, dataProcessed, matchedCount>>
component == <<geoPayload, csvFetch, geoFetch, state,
               rendered, effectPending, lastDeps, crashed, mergeRuns>>
vars == <<component, call, page>>

NoCall == [fn |-> "none", arg |-> Undefined, result |-> Undefined, extra |-> Undefined]

NoError == "null"

\* no single-file view is mounted
NoPage == [view |-> "none", fetch |-> "pending", suburbData |-> Null,
           loading |-> TRUE, error |-> NoError]
CsvErrors == {"Failed to load CSV data", "Failed to fetch"}
GeoErrors == {"Unexpected token < in JSON"}

\* variant: the dependency array without suburbData.length
Deps_NoCsvLength(data, geo, processed) ==
  <<0, IF geo = Null THEN "null" ELSE geo.type, processed>>

\* the dependency array of the merge effect
Deps(data, geo, processed) ==
  <<Len(data), IF geo = Null THEN "null" ELSE geo.type, processed>>

\* what a render closes over
Snapshot ==
  [suburbData |-> suburbData, geoJSONData |-> geoJSONData, loading |-> loading,
   error |-> error, dataProcessed |-> dataProcessed, matchedCount |-> matchedCount]

\* the useState initial values; the first commit has run its three effects:
\* both fetches are in flight and the merge effect has found nothing to merge
Init ==
  /\ geoPayload = Null
  /\ csvFetch = "pending"
  /\ geoFetch = "pending"
  /\ suburbData = <<>>
  /\ geoJSONData = Null
  /\ loading = TRUE
  /\ error = NoError
  /\ dataProcessed = FALSE
  /\ matchedCount = 0
  /\ rendered = [suburbData |-> <<>>, geoJSONData |-> Null, loading |-> TRUE,
                 error |-> NoError, dataProcessed |-> FALSE, matchedCount |-> 0]
  /\ effectPending = FALSE
  /\ lastDeps = Deps(<<>>, Null, FALSE)
  /\ crashed = FALSE
  /\ mergeRuns = 0
  /\ call = NoCall
  /\ page = NoPage

\* Papa.parse complete: setSuburbData(results.data)
CsvLoaded ==
  /\ csvFetch = "pending"
  /\ csvFetch' = "ok"
  /\ \E data \in CsvPayloads : suburbData' = data
  /\ UNCHANGED <<geoPayload, geoFetch, geoJSONData, loading, error,
                 dataProcessed, matchedCount, rendered, effectPending, lastDeps,
                 crashed, mergeRuns, call, page>>

\* !response.ok or a rejected fetch: .catch(err => setError(err.message))
CsvFetchFailed ==
  /\ csvFetch = "pending"
  /\ csvFetch' = "failed"
  /\ \E msg \in CsvErrors : error' = msg
  /\ UNCHANGED <<geoPayload, geoFetch, suburbData, geoJSONData, loading,
                 dataProcessed, matchedCount, rendered, effectPending, lastDeps,
                 crashed, mergeRuns, call, page>>

\* Papa.parse error: setError('Failed to parse CSV data')
CsvParseFailed ==
  /\ csvFetch = "pending"
  /\ csvFetch' = "parseError"
  /\ error' = "Failed to parse CSV data"
  /\ UNCHANGED <<geoPayload, geoFetch, suburbData, geoJSONData, loading,
                 dataProcessed, matchedCount, rendered, effectPending, lastDeps,
                 crashed, mergeRuns, call, page>>

\* variant: the geometry callback also calls setLoading(false), as the
\* callbacks of the single-file views do
GeoLoaded_ClearsLoading ==
  /\ geoFetch = "pending"
  /\ geoFetch' = "ok"
  /\ \E data \in GeoPayloads : geoJSONData' = data /\ geoPayload' = data
  /\ loading' = FALSE
  /\ UNCHANGED <<csvFetch, suburbData, error,
                 dataProcessed, matchedCount, rendered, effectPending, lastDeps,
                 crashed, mergeRuns, call, page>>

\* response.json() resolved: setGeoJSONData(data)
GeoLoaded ==
  /\ geoFetch = "pending"
  /\ geoFetch' = "ok"
  /\ \E data \in GeoPayloads : geoJSONData' = data /\ geoPayload' = data
  /\ UNCHANGED <<csvFetch, suburbData, loading, error,
                 dataProcessed, matchedCount, rendered, effectPending, lastDeps,
                 crashed, mergeRuns, call, page>>

\* a rejected fetch or a body that is not JSON: .catch(err => setError(err.message))
GeoFetchFailed ==
  /\ geoFetch = "pending"
  /\ geoFetch' = "failed"
  /\ \E msg \in GeoErrors : error' = msg
  /\ UNCHANGED <<geoPayload, csvFetch, suburbData, geoJSONData, loading,
                 dataProcessed, matchedCount, rendered, effectPending, lastDeps,
                 crashed, mergeRuns, call, page>>

\* a re-render after a state update; the passive effect of the previous commit
\* is flushed before it, and the merge effect is scheduled when its
\* dependencies differ from those of the previous render
Render ==
  /\ ~crashed
  /\ ~effectPending
  /\ Snapshot # rendered
  /\ rendered' = Snapshot
  /\ effectPending' = (Deps(suburbData, geoJSONData, dataProcessed) # lastDeps)
  /\ lastDeps' = Deps(suburbData, geoJSONData, dataProcessed)
  /\ UNCHANGED <<geoPayload, csvFetch, geoFetch, state, crashed, mergeRuns, call, page>>

\* variants of the merge condition with one conjunct dropped
mergeCondition_NoProcessedFlag(geo, data, processed) ==
  geo # Null /\ Len(data) > 0
mergeCondition_NoGeometryTest(geo, data, processed) ==
  Len(data) > 0 /\ ~processed

\* if (geoJSONData && suburbData.length > 0 && !dataProcessed)
mergeCondition(geo, data, processed) ==
  geo # Null /\ Len(data) > 0 /\ ~processed

\* the merge effect, run with the values its render closed over
MergeEffect ==
  /\ ~crashed
  /\ effectPending
  /\ effectPending' = FALSE
  /\ IF mergeCondition(rendered.geoJSONData, rendered.suburbData, rendered.dataProcessed)
     THEN /\ mergeRuns' = mergeRuns + 1
          /\ IF MergeThrows(rendered.suburbData) \/ rendered.geoJSONData = Null
             THEN /\ crashed' = TRUE
                  /\ UNCHANGED state
             ELSE /\ matchedCount' = matchCount(rendered.geoJSONData.features,
                                                suburbMap(rendered.suburbData))
                  /\ geoJSONData' = mergedData(rendered.geoJSONData, rendered.suburbData)
                  /\ loading' = FALSE
                  /\ dataProcessed' = TRUE
                  /\ UNCHANGED <<suburbData, error, crashed>>
     ELSE UNCHANGED <<state, crashed, mergeRuns>>
  /\ UNCHANGED <<geoPayload, csvFetch, geoFetch, rendered, lastDeps, call, page>>

Next ==
  \/ CsvLoaded
  \/ CsvFetchFailed
  \/ CsvParseFailed
  \/ GeoLoaded
  \/ GeoFetchFailed
  \/ Render
  \/ MergeEffect

Spec == Init /\ [][Next]_vars

\* React's scheduling: a state update is followed by a render, and a scheduled
\* effect is run.  The second conjunct is weak fairness of MergeEffect written
\* out: MergeEffect is enabled exactly when ~crashed /\ effectPending, and
\* only a MergeEffect step makes effectPending false.
Fairness ==
  /\ WF_vars(Render)
  /\ []<>(crashed \/ ~effectPending)

SpecLive == Init /\ [][Next]_vars /\ Fairness

\* the render gates: the loading gate is tested before the error gate
View ==
  IF crashed THEN "unmounted"
  ELSE IF rendered.loading THEN "loading"
  ELSE IF rendered.error # NoError THEN "error"
  ELSE "map"

TypeOK ==
  /\ csvFetch \in {"pending", "ok", "failed", "parseError"}
  /\ geoFetch \in {"pending", "ok", "failed"}
  /\ loading \in BOOLEAN /\ dataProcessed \in BOOLEAN /\ crashed \in BOOLEAN
  /\ matchedCount \in Nat /\ mergeRuns \in Nat

(* ------------------ the views that load a single file ----------------- *)
\* VicSuburbMap, VicMap, GeoMap and SimpleMap: one fetch in a useEffect with an
\* empty dependency array, whose callbacks set the view's state.
SingleFetchViews == {"VicSuburbMap", "VicMap", "GeoMap", "SimpleMap"}

\* the messages of the errors the promise chain can reject with: the one the
\* code throws for a response that is not ok, a rejected fetch, a body that is
\* not JSON
NotOk == "Failed to load suburb data"
FetchErrors == {NotOk, "Failed to fetch", "Unexpected token < in JSON"}

\* Math.floor(Math.random() * (20000 - 2000 + 1)) + 2000 is any integer from
\* 2000 to 20000, Math.floor(Math.random() * 18000) + 2000 any integer from
\* 2000 to 19999; the two ends stand for the range
RandomPrices(highest) == {2000, highest}

\* features.map(feature => ({...feature, properties: {...feature.properties,
\* price_sqm: randomPrice}}))
dataWithPrices(data, prices) ==
  [data EXCEPT !.features =
     [j \in 1..Len(data.features) |->
        [data.features[j] EXCEPT !.properties["price_sqm"] = Num(prices[j])]]]

\* the first commit of a view: the useState initial values, the fetch in flight
Mount ==
  /\ page = NoPage
  /\ \E view \in SingleFetchViews : page' = [NoPage EXCEPT !.view = view]
  /\ UNCHANGED <<component, call>>

\* .then(data => ...) of VicSuburbMap: setSuburbData(dataWithPrices); setLoading(false)
VicSuburbMapLoaded ==
  /\ page.view = "VicSuburbMap" /\ page.fetch = "pending"
  /\ \E data \in GeoPayloads :
       \E prices \in [1..Len(data.features) -> RandomPrices(20000)] :
         page' = [page EXCEPT !.fetch = "ok", !.loading = FALSE,
                              !.suburbData = dataWithPrices(data, prices)]
  /\ UNCHANGED <<component, call>>

\* .catch(err => ...) of VicSuburbMap: setError(err.message); setLoading(false)
VicSuburbMapFailed ==
  /\ page.view = "VicSuburbMap" /\ page.fetch = "pending"
  /\ \E msg \in FetchErrors :
       page' = [page EXCEPT !.fetch = "failed", !.error = msg, !.loading = FALSE]
  /\ UNCHANGED <<component, call>>

\* .then((data) => ...) of VicMap: setSuburbData(dataWithPrices); setLoading(false)
VicMapLoaded ==
  /\ page.view = "VicMap" /\ page.fetch = "pending"
  /\ \E data \in GeoPayloads :
       \E prices \in [1..Len(data.features) -> RandomPrices(20000)] :
         page' = [page EXCEPT !.fetch = "ok", !.loading = FALSE,
                              !.suburbData = dataWithPrices(data, prices)]
  /\ UNCHANGED <<component, call>>

\* .catch(err => ...) of VicMap: setError(err.message); setLoading(false)
VicMapFailed ==
  /\ page.view = "VicMap" /\ page.fetch = "pending"
  /\ \E msg \in FetchErrors :
       page' = [page EXCEPT !.fetch = "failed", !.error = msg, !.loading = FALSE]
  /\ UNCHANGED <<component, call>>

\* .then(data => ...) of GeoMap: setSuburbData(data); setLoading(false)
GeoMapLoaded ==
  /\ page.view = "GeoMap" /\ page.fetch = "pending"
  /\ \E data \in GeoPayloads :
       page' = [page EXCEPT !.fetch = "ok", !.loading = FALSE, !.suburbData = data]
  /\ UNCHANGED <<component, call>>

\* .catch(err => ...) of GeoMap: setError(err.message); setLoading(false)
GeoMapFailed ==
  /\ page.view = "GeoMap" /\ page.fetch = "pending"
  /\ \E msg \in FetchErrors :
       page' = [page EXCEPT !.fetch = "failed", !.error = msg, !.loading = FALSE]
  /\ UNCHANGED <<component, call>>

\* .then(data => ...) of SimpleMap: setGeoData(enhancedData); setLoading(false)
SimpleMapLoaded ==
  /\ page.view = "SimpleMap" /\ page.fetch = "pending"
  /\ \E data \in GeoPayloads :
       \E prices \in [1..Len(data.features) -> RandomPrices(19999)] :
         page' = [page EXCEPT !.fetch = "ok", !.loading = FALSE,
                              !.suburbData = dataWithPrices(data, prices)]
  /\ UNCHANGED <<component, call>>

\* .catch(error => ...) of SimpleMap: setLoading(false) only; the view has no
\* error state, and it does not test response.ok
SimpleMapFailed ==
  /\ page.view = "SimpleMap" /\ page.fetch = "pending"
  /\ page' = [page EXCEPT !.fetch = "failed", !.loading = FALSE]
  /\ UNCHANGED <<component, call>>

NextViews ==
  \/ Mount
  \/ VicSuburbMapLoaded
  \/ VicSuburbMapFailed
  \/ VicMapLoaded
  \/ VicMapFailed
  \/ GeoMapLoaded
  \/ GeoMapFailed
  \/ SimpleMapLoaded
  \/ SimpleMapFailed

SpecViews == Init /\ [][NextViews]_vars

\* what a single-file view returns: the loading gate, then the error gate of
\* the views that have one, then the map
PageView ==
  IF page.loading THEN "loading"
  ELSE IF page.view # "SimpleMap" /\ page.error # NoError THEN "error"
  ELSE "map"

\* {suburbData && (<GeoJSON data={suburbData} ... />)}
Overlay == PageView = "map" /\ page.suburbData # Null

(* ---------------- the functions, applied to drawn arguments ------------ *)
\* Each behaviour of SpecCalls draws one argument and applies one function.
MaxDelta == 5

\* prices at, just below and just above every threshold of the scale, zero
\* and negative numbers, and the values that are not numbers
Thresholds == {3000, 4000, 5000, 6000, 7000, 8000, 10000, 12000}
PriceInputs ==
  {Num(b + d) : b \in Thresholds \cup {0, 2680}, d \in (-MaxDelta)..MaxDelta}
    \cup {NaN, Undefined, JSNull}

p7500 == <<"$","7",",","5","0","0">>
p7500_50 == <<"$","7",",","5","0","0",".","5","0">>
p7500_5 == <<"7","5","0","0",".","5">>
pPlain == <<"7","5","0","0">>
pPOA == <<"P","O","A">>
PriceStrings == {Str(p9000), Str(p12500), Str(p7500), Str(p7500_50), Str(p7500_5),
                 Str(pPlain), Str(pNA), Str(pPOA), Str(<<>>), Undefined}

\* suburb names: an optional directional prefix, a base name, an optional
\* directional suffix, with single or double blanks, in either case, padded or not
NamePrefixes == {<<>>, <<"N","o","r","t","h"," ">>, <<"N","O","R","T","H"," "," ">>, <<"P","o","r","t"," ">>}
NameBases == {<<"M","e","l","b","o","u","r","n","e">>, <<"Y","a","r","r","a"," ","G","l","e","n">>, <<"N","o","r","t","h","c","o","t","e">>}
NameSuffixes == {<<>>, <<" ","W","e","s","t">>, <<" "," ","w","e","s","t">>, <<" ","E","a","s","t">>}
NamePads == {<<>>, <<" ">>}
NameInputs ==
  {pad \o pre \o base \o suf \o pad :
     pad \in NamePads, pre \in NamePrefixes, base \in NameBases, suf \in NameSuffixes}

sYarraville == <<"Y","a","r","r","a","v","i","l","l","e">>
recYarraville == SuburbRow(Str(lgaHobsons), Str(sYarraville), Str(bs2), Str(mp2), Str(p9000))
recYarravilleNA == SuburbRow(Str(lgaHobsons), Str(sYarraville), Str(bs2), Str(mp2), Str(pNA))
featYarraville == Feature("g7", [vic_loca_2 |-> Str(sYarraville)])
\* a geometry that brings a price_sqm of its own
featPriced == Feature("g8", [name |-> Str(sNowhereSpecial), price_sqm |-> Num(5000)])

\* getColor(price)
CallGetColor ==
  /\ call = NoCall
  /\ \E price \in PriceInputs :
       call' = [fn |-> "getColor", arg |-> price, result |-> getColor(price),
                extra |-> Undefined]
  /\ UNCHANGED <<component, page>>

\* the parse of a '$/sqm' string in the match branch
CallPricePerSqm ==
  /\ call = NoCall
  /\ \E str \in PriceStrings :
       call' = [fn |-> "pricePerSqm", arg |-> str, result |-> pricePerSqm(str),
                extra |-> Undefined]
  /\ UNCHANGED <<component, page>>

\* the alias key of a price-record key
CallSimpleName ==
  /\ call = NoCall
  /\ \E raw \in NameInputs :
       LET name == Trim(ToLowerCase(raw))
       IN call' = [fn |-> "simpleName", arg |-> name, result |-> simpleName(name),
                   extra |-> Undefined]
  /\ UNCHANGED <<component, page>>

\* the lookup of a geometry named b in the map built from one record named a:
\* result is the lookup key, extra the record found (0 for undefined)
CallLookup ==
  /\ call = NoCall
  /\ \E a \in NameInputs, b \in NameInputs :
       LET data == <<SuburbRow(Str(lgaYarra), Str(a), Str(bs1), Str(mp1), Str(p9000))>>
           feature == Feature("g1", [name |-> Str(b)])
       IN call' = [fn |-> "lookup", arg |-> <<a, b>>, result |-> lookupName(feature),
                   extra |-> matchingSuburb(feature, suburbMap(data))]
  /\ UNCHANGED <<component, page>>

\* the join computation on a geometry collection and price records, and the
\* same computation on its own output
CallJoin ==
  /\ call = NoCall
  /\ \E geo \in GeoPayloads, data \in CsvPayloads :
       /\ Len(data) > 0 /\ ~MergeThrows(data)
       /\ LET once == mergedData(geo, data)
          IN call' = [fn |-> "join", arg |-> <<geo, data>>,
                      result |-> [data |-> once,
                                  count |-> matchCount(geo.features, suburbMap(data))],
                      extra |-> [data |-> mergedData(once, data),
                                 count |-> matchCount(once.features, suburbMap(data))]]
  /\ UNCHANGED <<component, page>>

\* the GeoJSON layer styles a feature of an enriched collection and binds its
\* popup: arg is the feature and the records it was joined with, result is
\* the style, extra the popup
CallFeatureStyle ==
  /\ call = NoCall
  /\ \E feature \in FeaturePool \cup {featYarraville, featPriced},
        data \in SeqsUpTo((RecordPool \ {recBlankLine}) \cup {recYarraville, recYarravilleNA}, 1) :
       LET enriched == MergeFeature(feature, suburbMap(data), data)
       IN call' = [fn |-> "featureStyle", arg |-> <<enriched, data>>,
                   result |-> featureStyle(enriched), extra |-> onEachFeature(enriched)]
  /\ UNCHANGED <<component, page>>

\* prices around the thresholds of every view's scale
ViewPrices ==
  PriceInputs \cup {Num(b + d) : b \in {11000, 14000, 17000, 20000}, d \in {-1, 0, 1}}

\* the getColor of one of the views, applied to a price
CallViewGetColor ==
  /\ call = NoCall
  /\ \E view \in MapViews, price \in ViewPrices :
       call' = [fn |-> "viewGetColor", arg |-> [view |-> view, price |-> price],
                result |-> viewGetColor(view, price), extra |-> Undefined]
  /\ UNCHANGED <<component, page>>

NextCalls ==
  \/ CallGetColor
  \/ CallPricePerSqm
  \/ CallSimpleName
  \/ CallLookup
  \/ CallJoin
  \/ CallFeatureStyle
  \/ CallViewGetColor

SpecCalls == Init /\ [][NextCalls]_vars

(* ------------------------------ properties ----------------------------- *)
\* both fetches have settled and nothing is left to render or to run
Quiescent ==
  /\ csvFetch # "pending"
  /\ geoFetch # "pending"
  /\ ~effectPending
  /\ (crashed \/ rendered = Snapshot)

\* the key of a price record: suburb.Suburb.toLowerCase().trim()
Key(row) == Trim(ToLowerCase(row.Suburb.s))

\* no price record is registered, by its name or by its alias, under the
\* name the feature is looked up by
NoRecordFor(feature, data) ==
  \A i \in 1..Len(data) :
    Key(data[i]) # lookupName(feature) /\ simpleName(Key(data[i])) # lookupName(feature)

Enriched(feature) == feature.properties["matched_suburb"] # Undefined

\* C1: the merge body runs at most once per page view, and once dataProcessed
\* is true geoJSONData and matchedCount never change again
C1_MergeAtMostOnce ==
  [][/\ mergeRuns' <= 1
     /\ dataProcessed => (geoJSONData' = geoJSONData /\ matchedCount' = matchedCount)]_vars

\* C1 witness: the merge has run, its state updates have been rendered and
\* have re-triggered the merge effect, which has run again without merging
C1_Witness ==
  /\ dataProcessed /\ mergeRuns = 1
  /\ rendered = Snapshot /\ ~effectPending
  /\ lastDeps = Deps(suburbData, geoJSONData, TRUE)

\* C2: the join runs only with a loaded geometry collection and a non-empty
\* price collection; after a failed geometry fetch it has not run and
\* matchedCount is 0; the collection is never partly enriched
C2_JoinNeedsBothSources ==
  /\ mergeRuns > 0 => (geoFetch = "ok" /\ csvFetch = "ok" /\ Len(suburbData) > 0)
  /\ geoFetch = "failed" => (mergeRuns = 0 /\ matchedCount = 0 /\ geoJSONData = Null)
  /\ \/ geoJSONData = Null
     \/ ~dataProcessed /\ geoJSONData = geoPayload
     \/ dataProcessed /\ geoJSONData = mergedData(geoPayload, suburbData)

\* C2 witness: the geometry fetch has failed, price records are loaded and the
\* merge effect has run on them
C2_Witness ==
  /\ geoFetch = "failed" /\ csvFetch = "ok" /\ Len(suburbData) > 0
  /\ Quiescent /\ lastDeps = Deps(suburbData, Null, FALSE)

\* C3: whenever the fetch or parse of either source fails, the page ends up
\* displaying the error view
C3_FailureShowsErrorView ==
  (Quiescent /\ (csvFetch \in {"failed", "parseError"} \/ geoFetch = "failed"))
    => View = "error"

\* C4: after the join every feature has a price_sqm that is a number greater
\* than 0, or no price_sqm at all
C4_PricePositiveOrAbsent ==
  dataProcessed =>
    \A j \in 1..Len(geoJSONData.features) :
      LET price == geoJSONData.features[j].properties["price_sqm"]
      IN price = Undefined \/ (price.t = "num" /\ price.n > 0)

\* C5: the entry under a price record's own normalized name is never replaced
\* by the stripped alias of another record, so a geometry whose name is the
\* normalized name of a record is enriched with a record of that name
C5_PrimaryKeyKept ==
  dataProcessed =>
    /\ \A i \in 1..Len(suburbData) :
         LET m == AddSuburbs(EmptyMap, suburbData, 1)
         IN Key(suburbData[Get(m, Key(suburbData[i]))]) = Key(suburbData[i])
    /\ \A j \in 1..Len(geoPayload.features) :
         LET k == lookupName(geoPayload.features[j])
         IN (k \notin {kRichmond, kWilliamstown}
             /\ \E i \in 1..Len(suburbData) : Key(suburbData[i]) = k)
            => Trim(ToLowerCase(geoJSONData.features[j].properties["matched_suburb"].s)) = k

\* C6: when the normalized name of a geometry is not in the map, the join
\* also tries the stripped-directional form of the geometry's name
C6_GeometryAliasFallback ==
  dataProcessed =>
    LET m == suburbMap(suburbData)
    IN \A j \in 1..Len(geoPayload.features) :
      LET k == lookupName(geoPayload.features[j])
      IN (Get(m, k) = 0 /\ Get(m, simpleName(k)) # 0)
         => geoJSONData.features[j].properties["matched_suburb"]
              = suburbData[Get(m, simpleName(k))].Suburb

\* C7: in the end-to-end scenario Richmond gets 9000 and #bd0026, North
\* Melbourne gets 12500 and #800026, Nowhere Special gets #cccccc, and the
\* match count is 2
C7_EndToEndScenario ==
  (dataProcessed /\ suburbData = ScenarioRecords
                 /\ geoPayload = FeatureCollection(ScenarioFeatures))
    => LET price(j) == geoJSONData.features[j].properties["price_sqm"]
       IN /\ price(1) = Num(9000) /\ getColor(price(1)) = "#bd0026"
          /\ price(2) = Num(12500) /\ getColor(price(2)) = "#800026"
          /\ getColor(price(3)) = "#cccccc"
          /\ matchedCount = 2

\* C8: matchedCount is the number of features of the enriched collection that
\* carry matched_suburb
C8_MatchedCountCountsFeatures ==
  dataProcessed =>
    matchedCount = Cardinality({j \in 1..Len(geoJSONData.features) :
                                  Enriched(geoJSONData.features[j])})

\* C8 witness: two features were enriched from a single price record
C8_Witness ==
  dataProcessed /\ matchedCount = 2 /\ Len(suburbData) = 1

C10_HitAttachesOneRecord ==
  dataProcessed =>
    \A j \in 1..Len(geoPayload.features) :
      LET f == geoPayload.features[j]
          g == geoJSONData.features[j]
      IN Enriched(g) =>
           /\ \E i \in 1..Len(suburbData) :
                /\ Key(suburbData[i]) = lookupName(f)
                     \/ simpleName(Key(suburbData[i])) = lookupName(f)
                /\ g.properties["price_sqm"] = pricePerSqm(suburbData[i].PriceSqm)
                /\ g.properties["median_price"] = suburbData[i].MedianPrice
                /\ g.properties["block_size"] = suburbData[i].BlockSize
                /\ g.properties["lga"] = suburbData[i].LGA
                /\ g.properties["matched_suburb"] = suburbData[i].Suburb
           /\ \A k \in PropKeys \ JoinKeys : g.properties[k] = f.properties[k]
           /\ g.geometry = f.geometry

\* C10 witness: a feature that already had an lga and a postcode was enriched
C10_Witness ==
  /\ dataProcessed
  /\ \E j \in 1..Len(geoPayload.features) :
       /\ geoPayload.features[j] = featRichmond
       /\ Enriched(geoJSONData.features[j])
       /\ geoJSONData.features[j].properties["lga"] # featRichmond.properties["lga"]

(* ----------------- properties of the functions (SpecCalls) ------------- *)
NoDataValues == {JSNull, Undefined, Num(0), NaN}

\* C11: getColor returns '#cccccc' for null, undefined, 0 and NaN, and one of
\* the other colours of the scale for every other number
C11_GetColorSentinel ==
  call.fn = "getColor" =>
    /\ call.arg \in NoDataValues => call.result = "#cccccc"
    /\ call.arg \notin NoDataValues =>
         call.result \in {"#1a9850", "#91cf60", "#d9ef8b", "#fee08b", "#fc8d59",
                          "#d73027", "#bd0026", "#800026", "#4a0018"}

\* C11 witness: getColor was applied to 0
C11_Witness ==
  call.fn = "getColor" /\ call.arg = Num(0) /\ call.result = "#cccccc"

\* the canonical table: exclusive upper bounds and colours, lowest first
CanonicalTable ==
  << <<3000, "#1a9850">>, <<4000, "#91cf60">>, <<5000, "#d9ef8b">>,
     <<6000, "#fee08b">>, <<7000, "#fc8d59">>, <<8000, "#d73027">>,
     <<10000, "#bd0026">>, <<12000, "#800026">> >>

\* the position of the first row whose bound is greater than n; one past the
\* table when there is none
ExpenseRank(n) ==
  IF \E i \in 1..Len(CanonicalTable) : CanonicalTable[i][1] > n
  THEN CHOOSE i \in 1..Len(CanonicalTable) :
         /\ CanonicalTable[i][1] > n
         /\ \A j \in 1..(i - 1) : CanonicalTable[j][1] <= n
  ELSE Len(CanonicalTable) + 1

RankColor(r) == IF r <= Len(CanonicalTable) THEN CanonicalTable[r][2] ELSE "#4a0018"

RankOfColor(c) ==
  IF \E i \in 1..Len(CanonicalTable) : CanonicalTable[i][2] = c
  THEN CHOOSE i \in 1..Len(CanonicalTable) : CanonicalTable[i][2] = c
  ELSE Len(CanonicalTable) + 1

\* C12: for a positive price, getColor is the colour of the first row of the
\* canonical table whose bound is greater than the price, '#4a0018' from 12000
\* on, and the rank of the colour does not decrease with the price
C12_GetColorCanonicalTable ==
  (call.fn = "getColor" /\ call.arg.t = "num" /\ call.arg.n > 0) =>
    /\ call.result = RankColor(ExpenseRank(call.arg.n))
    /\ \A q \in PriceInputs :
         (q.t = "num" /\ q.n > 0 /\ q.n <= call.arg.n)
           => RankOfColor(getColor(q)) <= RankOfColor(call.result)

\* C12 witness: a price on a bound is in the bucket above it
C12_Witness ==
  call.fn = "getColor" /\ call.arg = Num(3000) /\ call.result = "#91cf60"

IsYarraville(feature) == ToLowerCase(suburbName(feature).s) = kYarraville

\* C13 as stated: the fill colour of every feature of the enriched collection
\* is getColor of its price_sqm, whatever its name
C13_FillIsColorOfOwnPrice ==
  call.fn = "featureStyle" =>
    call.result.fillColor = getColor(call.arg[1].properties["price_sqm"])

\* C13 amended: the fill colour is getColor of the feature's price_sqm unless
\* the feature is named Yarraville, which is always filled with getColor(2680)
C13_FillIsColorOfOwnPriceExceptYarraville ==
  call.fn = "featureStyle" =>
    call.result.fillColor =
      IF IsYarraville(call.arg[1]) THEN "#1a9850"
      ELSE getColor(call.arg[1].properties["price_sqm"])

\* C13 witness: a feature named Yarraville joined with a price of 9000 was styled
C13_Witness ==
  /\ call.fn = "featureStyle"
  /\ IsYarraville(call.arg[1])
  /\ call.arg[1].properties["price_sqm"] = Num(9000)
  /\ call.result.fillColor = "#1a9850"

\* the range the label of a legend row states
InLegendRange(row, n) ==
  /\ row.label # "No data"
  /\ row.lo = -1 \/ row.lo <= n
  /\ row.hi = -1 \/ n < row.hi

\* C14: the colour getColor returns for a price is the colour of the legend row
\* whose range contains the price, 'No data' for the values that are no price;
\* every colour of getColor is in the legend and every legend colour is the
\* colour of some price
C14_LegendMatchesGetColor ==
  call.fn = "getColor" =>
    /\ call.arg \notin NoDataValues =>
         /\ \E i \in 1..Len(legend) : InLegendRange(legend[i], call.arg.n)
         /\ \A i \in 1..Len(legend) :
              InLegendRange(legend[i], call.arg.n) => legend[i].color = call.result
    /\ call.arg \in NoDataValues =>
         \A i \in 1..Len(legend) :
           legend[i].label = "No data" => legend[i].color = call.result
    /\ \E i \in 1..Len(legend) : legend[i].color = call.result
    /\ \A i \in 1..Len(legend) : \E p \in PriceInputs : getColor(p) = legend[i].color

\* C14 witness: getColor was applied to 10000, the lower end of a legend row
C14_Witness ==
  call.fn = "getColor" /\ call.arg = Num(10000) /\ call.result = "#800026"

\* s.replace(/[^0-9.]/g, ''), the stripping the specification describes
RECURSIVE DigitsAndPoint(_)
DigitsAndPoint(s) ==
  IF Len(s) = 0 THEN <<>>
  ELSE IF IsDigit(s[1]) \/ s[1] = "." THEN <<s[1]>> \o DigitsAndPoint(Tail(s))
  ELSE DigitsAndPoint(Tail(s))

RECURSIVE UpToPoint(_)
UpToPoint(s) ==
  IF Len(s) = 0 \/ s[1] = "." THEN <<>> ELSE <<s[1]>> \o UpToPoint(Tail(s))

\* the number a string of digits with at most one point and at most two
\* decimals denotes, in hundredths
Hundredths(s) ==
  LET whole == UpToPoint(s)
      frac == SubSeq(s, Len(whole) + 2, Len(s))
  IN 100 * DecimalValue(whole)
       + (IF Len(frac) = 0 THEN 0
          ELSE IF Len(frac) = 1 THEN 10 * DigitValue(frac[1])
          ELSE DecimalValue(SubSeq(frac, 1, 2)))

\* C15: the parsed price is the number denoted by the string once every
\* character that is not a digit or a decimal point is removed
C15_ParseKeepsDecimalPoint ==
  (call.fn = "pricePerSqm" /\ OnlyDigits(call.arg.s) # <<>>) =>
    /\ call.result.t = "num"
    /\ 100 * call.result.n = Hundredths(DigitsAndPoint(call.arg.s))

\* the '$/sqm' of the record a styled feature was joined with has no digit
JoinedWithoutPrice ==
  /\ call.fn = "featureStyle"
  /\ Enriched(call.arg[1])
  /\ OnlyDigits(call.arg[2][1].PriceSqm.s) = <<>>

C17_JoinIdempotent ==
  call.fn = "join" => call.extra = call.result

\* C17 witness: a join that enriched two features
C17_Witness ==
  /\ call.fn = "join"
  /\ call.result.count = 2
  /\ call.result.data # call.arg[1]

\* every run of whitespace replaced by one blank
RECURSIVE CollapseWhitespace(_)
CollapseWhitespace(s) ==
  IF Len(s) = 0 THEN <<>>
  ELSE IF s[1] \in Whitespace
  THEN <<" ">> \o CollapseWhitespace(TrimStart(s))
  ELSE <<s[1]>> \o CollapseWhitespace(Tail(s))

\* the normalization the specification describes
Normalize(s) == Trim(CollapseWhitespace(ToLowerCase(s)))

\* C18: the key of a name is the name in lower case, whitespace runs
\* collapsed, trimmed, so a geometry and a record whose names differ only in
\* case and whitespace match
C18_KeyCollapsesWhitespace ==
  call.fn = "lookup" =>
    /\ call.result = Normalize(call.arg[2])
    /\ Normalize(call.arg[1]) = Normalize(call.arg[2]) => call.extra # 0

\* C19: the alias key loses one leading directional token or one trailing
\* directional token, never both
C19_AliasStripsOneEnd ==
  call.fn = "simpleName" =>
    call.result = (IF StripLeading(call.arg) # call.arg THEN StripLeading(call.arg)
                   ELSE StripTrailing(call.arg))

RecordsNamed(data, k) == {i \in 1..Len(data) : Key(data[i]) = k}

Last(S) == CHOOSE i \in S : \A j \in S : j <= i

\* C21: when several price records have the normalized name a geometry is
\* looked up by, the lookup map holds the last of them in source order under
\* that name, and the geometry is enriched from it
C21_LastDuplicateWins ==
  dataProcessed =>
    \A j \in 1..Len(geoPayload.features) :
      LET k == lookupName(geoPayload.features[j])
          dups == RecordsNamed(suburbData, k)
      IN Cardinality(dups) >= 2 =>
           LET i == Get(suburbMap(suburbData), k)
               g == geoJSONData.features[j]
           IN /\ i # 0
              /\ suburbData[i] = suburbData[Last(dups)]
              /\ g.properties["matched_suburb"] = suburbData[Last(dups)].Suburb
              /\ g.properties["price_sqm"] = pricePerSqm(suburbData[Last(dups)].PriceSqm)

\* C22: the join never raises an error: not for a feature without a name
\* property, and not for a price record without a Suburb field; with both
\* sources loaded it completes
C22_AbsentNameNeverRaises ==
  /\ ~crashed
  /\ (Quiescent /\ csvFetch = "ok" /\ geoFetch = "ok" /\ Len(suburbData) > 0)
       => dataProcessed

\* C23: in every map view, the getColor that styles a feature returns the
\* 'no data' colour '#cccccc' for a price that is undefined, zero or NaN
C23_EveryViewHasNoDataColour ==
  (call.fn = "viewGetColor" /\ call.arg.price \in {Undefined, Num(0), NaN})
    => call.result = "#cccccc"

\* C24: once the fetch of a single-file view has settled, the view has left the
\* loading screen, and it shows an error message exactly when the fetch or the
\* JSON parse failed; so a failed fetch never ends in a map without overlay
\* and without message
C24_SettledFetchShowsMapOrError ==
  (page.view \in SingleFetchViews /\ page.fetch # "pending") =>
    /\ PageView # "loading"
    /\ (PageView = "error") <=> (page.fetch = "failed")
    /\ ~(page.fetch = "failed" /\ PageView = "map" /\ ~Overlay)

\* C25: whenever loading is false, dataProcessed is true and geoJSONData is the
\* enriched collection, so the map is never rendered with the geometry as it
\* was fetched; loading and dataProcessed change only together, in the join
C25_MapOnlyAfterJoin ==
  /\ [](~loading => (dataProcessed /\ geoJSONData = mergedData(geoPayload, suburbData)))
  /\ [](View = "map" =>
          (rendered.dataProcessed
             /\ rendered.geoJSONData = mergedData(geoPayload, rendered.suburbData)))
  /\ [][(loading' # loading \/ dataProcessed' # dataProcessed) =>
          /\ loading /\ ~loading'
          /\ ~dataProcessed /\ dataProcessed'
          /\ mergeRuns' = mergeRuns + 1]_vars

\* C25 witness: the map is rendered with a collection the join has changed
C25_Witness ==
  /\ View = "map"
  /\ ~loading /\ dataProcessed
  /\ rendered.geoJSONData # geoPayload

\* C26: once both fetches have succeeded with a geometry collection and at
\* least one price record, the view eventually shows the map with the enriched
\* collection
C26_BothLoadedLeadsToMap ==
  (csvFetch = "ok" /\ geoFetch = "ok" /\ Len(suburbData) > 0)
    ~> (View = "map" /\ rendered.dataProcessed
          /\ rendered.geoJSONData = mergedData(geoPayload, suburbData))

\* C27 as stated: matchedCount never exceeds the number of price records
C27_MatchedAtMostRecords ==
  dataProcessed => matchedCount <= Len(suburbData)

\* C27 amended: matchedCount never exceeds the number of features of the
\* geometry collection
C27_MatchedAtMostFeatures ==
  dataProcessed => matchedCount <= Len(geoJSONData.features)

\* C27 witness: the legend reads 'Matched: X of Y suburbs' with X greater than
\* Y: more features were matched than there are price records
C27_Witness ==
  /\ dataProcessed /\ rendered = Snapshot /\ View = "map"
  /\ matchedCount > Len(suburbData)
  /\ matchedCount <= Len(geoJSONData.features)

\* C28: featureStyle gives a feature the sentinel fill '#cccccc' exactly when
\* onEachFeature binds the 'No price data available' popup
C28_StyleAndPopupAgree ==
  call.fn = "featureStyle" =>
    ((call.result.fillColor = "#cccccc")
       <=> (call.extra.kind = "No price data available"))

\* C28 witness: a feature named Yarraville that no price record matched is
\* styled and given its popup
C28_Witness ==
  /\ call.fn = "featureStyle"
  /\ IsYarraville(call.arg[1]) /\ ~Enriched(call.arg[1])
  /\ call.result.fillColor = "#1a9850"
  /\ call.extra.kind = "yarraville"

====
